---------------------------- MODULE Spec2Model ----------------------------
(***************************************************************************)
(* Country-name standardization (notebooks/utils_country.py) and the      *)
(* common-country aligner (notebooks/utils_align.py).                      *)
(*                                                                         *)
(* A Python str is a sequence of characters.  An ASCII character is the   *)
(* one-character string holding it; a character outside ASCII is the      *)
(* string "U+XXXX" naming its code point.  Chars turns a literal into     *)
(* such a sequence.                                                        *)
(***************************************************************************)
EXTENDS Integers, Sequences, FiniteSets, TLC

VARIABLES
    pc,        \* position of the modelled call: "start", then the calls made
    name,      \* canonical_country / normalize_token: the raw input (or Null)
    norm,      \* normalize_token(name), once computed
    canon,     \* canonical_country(name), once computed
    again,     \* canonical_country(canon), once computed
    dfs,       \* standardize_and_keep_common: the input dataframes
    col,       \* ... its col argument
    with_report, \* ... its with_report argument
    standardized, \* ... its local: the standardized frames appended so far
    common,    \* ... its local: the common set, once computed
    outcome,   \* ... what the call produced: a return value or the KeyError
    column,    \* report_unmapped: the values of df[col]
    unmapped   \* report_unmapped: the "original" column of the returned frame

vars == <<pc, name, norm, canon, again, dfs, col, with_report, standardized,
          common, outcome, column, unmapped>>

-----------------------------------------------------------------------------
(* Characters *)

Chars(s) == [i \in 1..Len(s) |-> SubSeq(s, i, i)]

Range(f) == {f[i] : i \in DOMAIN f}

U_Uuml == "U+00DC"       \* LATIN CAPITAL LETTER U WITH DIAERESIS
U_ccedil == "U+00E7"     \* LATIN SMALL LETTER C WITH CEDILLA
U_ocirc == "U+00F4"      \* LATIN SMALL LETTER O WITH CIRCUMFLEX
U_oslash == "U+00F8"     \* LATIN SMALL LETTER O WITH STROKE (no decomposition)
U_uuml == "U+00FC"       \* LATIN SMALL LETTER U WITH DIAERESIS
U_circumflex == "U+0302" \* COMBINING CIRCUMFLEX ACCENT
U_diaeresis == "U+0308"  \* COMBINING DIAERESIS
U_cedilla == "U+0327"    \* COMBINING CEDILLA
U_rsquo == "U+2019"      \* RIGHT SINGLE QUOTATION MARK

AsciiLower == Chars("abcdefghijklmnopqrstuvwxyz")
AsciiUpper == Chars("ABCDEFGHIJKLMNOPQRSTUVWXYZ")
AsciiDigit == Chars("0123456789")

\* Every character of the model, in ascending code-point order (the order
\* Python compares str by).
CodePointOrder ==
    Chars("\t &'(),-./") \o AsciiDigit \o AsciiUpper \o <<"_">> \o AsciiLower
    \o <<U_Uuml, U_ccedil, U_ocirc, U_oslash, U_uuml,
         U_circumflex, U_diaeresis, U_cedilla, U_rsquo>>

Ord == [c \in Range(CodePointOrder) |->
          CHOOSE i \in DOMAIN CodePointOrder : CodePointOrder[i] = c]

\* unicodedata.combining(ch) # 0
Combining(c) == c \in {U_circumflex, U_diaeresis, U_cedilla}

\* str.isspace / the regex class \s
IsSpace(c) == c \in {" ", "\t"}

\* the regex class \w under re.UNICODE: letters of any script, digits and "_"
IsWordChar(c) ==
    \/ c \in Range(AsciiLower) \cup Range(AsciiUpper) \cup Range(AsciiDigit)
    \/ c = "_"
    \/ c \in {U_Uuml, U_ccedil, U_ocirc, U_oslash, U_uuml}

\* unicodedata.normalize("NFKD", ch)
NFKD(c) ==
    CASE c = U_Uuml -> <<"U", U_diaeresis>>
      [] c = U_uuml -> <<"u", U_diaeresis>>
      [] c = U_ccedil -> <<"c", U_cedilla>>
      [] c = U_ocirc -> <<"o", U_circumflex>>
      [] OTHER -> <<c>>

\* str.lower, one character
LowerChar(c) ==
    IF c \in Range(AsciiUpper)
    THEN AsciiLower[CHOOSE i \in DOMAIN AsciiUpper : AsciiUpper[i] = c]
    ELSE IF c = U_Uuml THEN U_uuml ELSE c

-----------------------------------------------------------------------------
(* str methods and re.sub, as the module uses them *)

\* str.lower
Lower(s) == [i \in DOMAIN s |-> LowerChar(s[i])]

\* str.lstrip / str.rstrip / str.strip with no argument
RECURSIVE LStrip(_)
LStrip(s) == IF s # <<>> /\ IsSpace(Head(s)) THEN LStrip(Tail(s)) ELSE s

RECURSIVE RStrip(_)
RStrip(s) ==
    IF s # <<>> /\ IsSpace(s[Len(s)]) THEN RStrip(SubSeq(s, 1, Len(s) - 1))
    ELSE s

Strip(s) == RStrip(LStrip(s))

\* s[i:i+len(pat)] == pat
MatchesAt(s, i, pat) ==
    /\ i + Len(pat) - 1 <= Len(s)
    /\ SubSeq(s, i, i + Len(pat) - 1) = pat

\* pat in s
Contains(s, pat) == \E i \in 1..(Len(s) + 1) : MatchesAt(s, i, pat)

\* s.startswith(pat)
StartsWith(s, pat) == MatchesAt(s, 1, pat)

\* s.replace(old, new), old non-empty
RECURSIVE ReplaceFrom(_, _, _, _)
ReplaceFrom(s, old, new, i) ==
    IF i > Len(s) THEN <<>>
    ELSE IF MatchesAt(s, i, old)
         THEN new \o ReplaceFrom(s, old, new, i + Len(old))
         ELSE <<s[i]>> \o ReplaceFrom(s, old, new, i + 1)

Replace(s, old, new) == ReplaceFrom(s, old, new, 1)

\* the regex assertion \b before s[i] (i = Len(s) + 1: at the end)
WordAt(s, i) == i >= 1 /\ i <= Len(s) /\ IsWordChar(s[i])
WordBoundary(s, i) == WordAt(s, i - 1) # WordAt(s, i)

\* re.sub(r"\b<pat>\b", repl, s) for a literal pat
RECURSIVE SubWordFrom(_, _, _, _)
SubWordFrom(s, pat, repl, i) ==
    IF i > Len(s) THEN <<>>
    ELSE IF /\ MatchesAt(s, i, pat)
            /\ WordBoundary(s, i)
            /\ WordBoundary(s, i + Len(pat))
         THEN repl \o SubWordFrom(s, pat, repl, i + Len(pat))
         ELSE <<s[i]>> \o SubWordFrom(s, pat, repl, i + 1)

SubWord(s, pat, repl) == SubWordFrom(s, pat, repl, 1)

\* the length of the run of whitespace starting at s[i]
RECURSIVE SpaceRun(_, _)
SpaceRun(s, i) ==
    IF i <= Len(s) /\ IsSpace(s[i]) THEN 1 + SpaceRun(s, i + 1) ELSE 0

\* re.sub(r"\b<head>\s*<tail>\b", repl, s) for literals head and tail,
\* tail starting with a character that is not whitespace
RECURSIVE SubWordGapFrom(_, _, _, _, _)
SubWordGapFrom(s, head, tail, repl, i) ==
    IF i > Len(s) THEN <<>>
    ELSE LET j == i + Len(head) + SpaceRun(s, i + Len(head))
         IN  IF /\ MatchesAt(s, i, head)
                /\ WordBoundary(s, i)
                /\ MatchesAt(s, j, tail)
                /\ WordBoundary(s, j + Len(tail))
             THEN repl \o SubWordGapFrom(s, head, tail, repl, j + Len(tail))
             ELSE <<s[i]>> \o SubWordGapFrom(s, head, tail, repl, i + 1)

SubWordGap(s, head, tail, repl) == SubWordGapFrom(s, head, tail, repl, 1)

\* _PUNCT_RX.sub(" ", s), _PUNCT_RX = [^\w\s]
PunctToSpace(s) ==
    [i \in DOMAIN s |-> IF IsWordChar(s[i]) \/ IsSpace(s[i]) THEN s[i] ELSE " "]

\* _WS_RX.sub(" ", s), _WS_RX = \s+
RECURSIVE CollapseFrom(_, _)
CollapseFrom(s, i) ==
    IF i > Len(s) THEN <<>>
    ELSE IF IsSpace(s[i])
         THEN <<" ">> \o CollapseFrom(s, i + SpaceRun(s, i))
         ELSE <<s[i]>> \o CollapseFrom(s, i + 1)

CollapseSpaces(s) == CollapseFrom(s, 1)

-----------------------------------------------------------------------------
(* 1) Text normalization helpers *)

\* A missing value (None / NaN): no str is this one-element sequence, since
\* "<NA>" is not a character.
Null == <<"<NA>">>

\* unicodedata.normalize("NFKD", s)
RECURSIVE Normalize_NFKD(_)
Normalize_NFKD(s) ==
    IF s = <<>> THEN <<>> ELSE NFKD(Head(s)) \o Normalize_NFKD(Tail(s))

strip_accents(s) ==
    IF s = Null THEN s
    ELSE SelectSeq(Normalize_NFKD(s), LAMBDA ch : ~Combining(ch))

_post_token_rules(s) ==
    LET s1 == Replace(s, Chars("&"), Chars("and"))
        s2 == SubWord(s1, Chars("dem"), Chars("democratic"))
        s3 == SubWord(s2, Chars("rep"), Chars("republic"))
        s4 == SubWord(s3, Chars("rep of"), Chars("republic of"))
        s5 == SubWord(s4, Chars("arab rep"), Chars("arab republic"))
        s6 == SubWord(s5, Chars("islamic rep"), Chars("islamic republic"))
        s7 == Replace(s6, Chars("dem peoples"), Chars("democratic peoples"))
        s8 == Replace(s7, Chars("dem people s"), Chars("democratic peoples"))
        s9 == SubWordGap(s8, Chars("fed"), Chars("sts"),
                         Chars("federated states"))
        s10 == SubWordGap(s9, Chars("fed"), Chars("states"),
                          Chars("federated states"))
        s11 == SubWord(s10, Chars("fed"), Chars("federal"))
    IN  Strip(CollapseSpaces(s11))

normalize_token(s) ==
    LET s0 == Strip(IF s = Null THEN <<>> ELSE s)
        s1 == strip_accents(s0)
        s2 == Lower(s1)
        s3 == PunctToSpace(s2)
        s4 == CollapseSpaces(s3)
        s5 == Strip(s4)
    IN  _post_token_rules(s5)


-----------------------------------------------------------------------------
(* 2) Canonical name mapping: CANONICAL, in the order of the dict literal, *)
(* as <<alias, canonical>> pairs                                           *)

CANONICAL_to_Congo == <<
    <<Chars("T") \o <<U_uuml>> \o Chars("rkiye"), Chars("Turkey")>>,
    <<Chars("T") \o <<U_uuml>> \o Chars("rkiye Cumhuriyeti"),
      Chars("Turkey")>>,
    <<Chars("turkiye"), Chars("Turkey")>>,
    <<Chars("republic of turkey"), Chars("Turkey")>>,
    <<Chars("turkey"), Chars("Turkey")>>,
    <<Chars("Czech Republic"), Chars("Czechia")>>,
    <<Chars("czechia"), Chars("Czechia")>>,
    <<Chars("Russian Federation"), Chars("Russia")>>,
    <<Chars("russia"), Chars("Russia")>>,
    <<Chars("Viet Nam"), Chars("Vietnam")>>,
    <<Chars("vietnam"), Chars("Vietnam")>>,
    <<Chars("Syrian Arab Republic"), Chars("Syria")>>,
    <<Chars("syria"), Chars("Syria")>>,
    <<Chars("Iran, Islamic Rep."), Chars("Iran")>>,
    <<Chars("Iran (Islamic Republic of)"), Chars("Iran")>>,
    <<Chars("Islamic Republic of Iran"), Chars("Iran")>>,
    <<Chars("iran islamic rep"), Chars("Iran")>>,
    <<Chars("iran"), Chars("Iran")>>,
    <<Chars("Lao PDR"), Chars("Laos")>>,
    <<Chars("Lao People's Democratic Republic"), Chars("Laos")>>,
    <<Chars("lao people s democratic republic"), Chars("Laos")>>,
    <<Chars("laos"), Chars("Laos")>>,
    <<Chars("Gambia, The"), Chars("Gambia")>>,
    <<Chars("The Gambia"), Chars("Gambia")>>,
    <<Chars("gambia"), Chars("Gambia")>>,
    <<Chars("Bahamas, The"), Chars("Bahamas")>>,
    <<Chars("The Bahamas"), Chars("Bahamas")>>,
    <<Chars("bahamas"), Chars("Bahamas")>>,
    <<Chars("Slovak Republic"), Chars("Slovakia")>>,
    <<Chars("slovakia"), Chars("Slovakia")>>,
    <<Chars("Somalia, Fed. Rep."), Chars("Somalia")>>,
    <<Chars("Somalia Federal Republic"), Chars("Somalia")>>,
    <<Chars("somalia fed rep"), Chars("Somalia")>>,
    <<Chars("somalia"), Chars("Somalia")>>,
    <<Chars("St. Kitts and Nevis"), Chars("St. Kitts and Nevis")>>,
    <<Chars("Saint Kitts and Nevis"), Chars("St. Kitts and Nevis")>>,
    <<Chars("st kitts and nevis"), Chars("St. Kitts and Nevis")>>,
    <<Chars("saint kitts and nevis"), Chars("St. Kitts and Nevis")>>,
    <<Chars("St. Lucia"), Chars("St. Lucia")>>,
    <<Chars("Saint Lucia"), Chars("St. Lucia")>>,
    <<Chars("st lucia"), Chars("St. Lucia")>>,
    <<Chars("saint lucia"), Chars("St. Lucia")>>,
    <<Chars("St. Vincent and the Grenadines"),
      Chars("St. Vincent and the Grenadines")>>,
    <<Chars("Saint Vincent and the Grenadines"),
      Chars("St. Vincent and the Grenadines")>>,
    <<Chars("st vincent and the grenadines"),
      Chars("St. Vincent and the Grenadines")>>,
    <<Chars("saint vincent and the grenadines"),
      Chars("St. Vincent and the Grenadines")>>,
    <<Chars("Cabo Verde"), Chars("Cabo Verde")>>,
    <<Chars("Cape Verde"), Chars("Cabo Verde")>>,
    <<Chars("Cote d'Ivoire"),
      Chars("C") \o <<U_ocirc>> \o Chars("te d") \o <<U_rsquo>> \o Chars("Ivoire")>>,
    <<Chars("Cote d Ivoire"),
      Chars("C") \o <<U_ocirc>> \o Chars("te d") \o <<U_rsquo>> \o Chars("Ivoire")>>,
    <<Chars("Ivory Coast"),
      Chars("C") \o <<U_ocirc>> \o Chars("te d") \o <<U_rsquo>> \o Chars("Ivoire")>>,
    <<Chars("Ivory Coast (Cote d'Ivoire)"),
      Chars("C") \o <<U_ocirc>> \o Chars("te d") \o <<U_rsquo>> \o Chars("Ivoire")>>,
    <<Chars("Eswatini"), Chars("Eswatini")>>,
    <<Chars("Swaziland"), Chars("Eswatini")>>,
    <<Chars("Myanmar"), Chars("Myanmar")>>,
    <<Chars("Burma"), Chars("Myanmar")>>,
    <<Chars("Timor-Leste"), Chars("Timor-Leste")>>,
    <<Chars("East Timor"), Chars("Timor-Leste")>>,
    <<Chars("Brunei Darussalam"), Chars("Brunei")>>,
    <<Chars("Brunei"), Chars("Brunei")>>,
    <<Chars("Democratic Republic of the Congo"),
      Chars("Congo (Democratic Republic of the)")>>,
    <<Chars("Congo, Democratic Republic of the"),
      Chars("Congo (Democratic Republic of the)")>>,
    <<Chars("Congo, Dem. Rep."),
      Chars("Congo (Democratic Republic of the)")>>,
    <<Chars("DR Congo"), Chars("Congo (Democratic Republic of the)")>>,
    <<Chars("DRC"), Chars("Congo (Democratic Republic of the)")>>,
    <<Chars("Republic of the Congo"), Chars("Congo")>>,
    <<Chars("Congo, Rep."), Chars("Congo")>>,
    <<Chars("Congo"), Chars("Congo")>>
>>

CANONICAL_from_Korea == <<
    <<Chars("Korea, Rep."), Chars("Korea, Republic of")>>,
    <<Chars("Republic of Korea"), Chars("Korea, Republic of")>>,
    <<Chars("South Korea"), Chars("Korea, Republic of")>>,
    <<Chars("Korea Republic of"), Chars("Korea, Republic of")>>,
    <<Chars("Korea, Dem. People's Rep."),
      Chars("Korea, Democratic People") \o <<U_rsquo>> \o Chars("s Republic of")>>,
    <<Chars("Korea, Democratic People's Republic of"),
      Chars("Korea, Democratic People") \o <<U_rsquo>> \o Chars("s Republic of")>>,
    <<Chars("Democratic People's Republic of Korea"),
      Chars("Korea, Democratic People") \o <<U_rsquo>> \o Chars("s Republic of")>>,
    <<Chars("Dem. People's Republic of Korea"),
      Chars("Korea, Democratic People") \o <<U_rsquo>> \o Chars("s Republic of")>>,
    <<Chars("DPR Korea"),
      Chars("Korea, Democratic People") \o <<U_rsquo>> \o Chars("s Republic of")>>,
    <<Chars("DPRK"),
      Chars("Korea, Democratic People") \o <<U_rsquo>> \o Chars("s Republic of")>>,
    <<Chars("North Korea"),
      Chars("Korea, Democratic People") \o <<U_rsquo>> \o Chars("s Republic of")>>,
    <<Chars("China, Hong Kong SAR"), Chars("Hong Kong SAR, China")>>,
    <<Chars("Hong Kong SAR, China"), Chars("Hong Kong SAR, China")>>,
    <<Chars("Hong Kong"), Chars("Hong Kong SAR, China")>>,
    <<Chars("China, Macao SAR"), Chars("Macao SAR, China")>>,
    <<Chars("Macao SAR, China"), Chars("Macao SAR, China")>>,
    <<Chars("Macau"), Chars("Macao SAR, China")>>,
    <<Chars("Macao"), Chars("Macao SAR, China")>>,
    <<Chars("Republic of Moldova"), Chars("Moldova")>>,
    <<Chars("Moldova"), Chars("Moldova")>>,
    <<Chars("United States"), Chars("United States of America")>>,
    <<Chars("United States of America"), Chars("United States of America")>>,
    <<Chars("USA"), Chars("United States of America")>>,
    <<Chars("U S A"), Chars("United States of America")>>,
    <<Chars("U S"), Chars("United States of America")>>,
    <<Chars("Venezuela (Bolivarian Republic of)"),
      Chars("Venezuela (Bolivarian Republic of)")>>,
    <<Chars("Venezuela, RB"), Chars("Venezuela (Bolivarian Republic of)")>>,
    <<Chars("Venezuela"), Chars("Venezuela (Bolivarian Republic of)")>>,
    <<Chars("Virgin Islands (U.S.)"), Chars("United States Virgin Islands")>>,
    <<Chars("United States Virgin Islands"),
      Chars("United States Virgin Islands")>>,
    <<Chars("virgin islands us"), Chars("United States Virgin Islands")>>,
    <<Chars("Yemen, Rep."), Chars("Yemen")>>,
    <<Chars("Republic of Yemen"), Chars("Yemen")>>,
    <<Chars("Yemen"), Chars("Yemen")>>,
    <<Chars("Australia/New Zealand"), Chars("Australia")>>,
    <<Chars("United Kingdom"), Chars("United Kingdom")>>,
    <<Chars("UK"), Chars("United Kingdom")>>,
    <<Chars("U K"), Chars("United Kingdom")>>,
    <<Chars("Great Britain"), Chars("United Kingdom")>>,
    <<Chars("Britain"), Chars("United Kingdom")>>,
    <<Chars("State of Palestine"), Chars("Palestine")>>,
    <<Chars("West Bank and Gaza"), Chars("Palestine")>>,
    <<Chars("Palestine"), Chars("Palestine")>>,
    <<Chars("Cocos (Keeling) Islands"), Chars("Cocos (Keeling) Islands")>>,
    <<Chars("Micronesia, Federated States of"),
      Chars("Micronesia, Federated States of")>>,
    <<Chars("Micronesia, Fed. Sts."),
      Chars("Micronesia, Federated States of")>>,
    <<Chars("TFYR Macedonia"), Chars("North Macedonia")>>,
    <<Chars("North Macedonia"), Chars("North Macedonia")>>,
    <<Chars("Macedonia, the former Yugoslav Republic of"),
      Chars("North Macedonia")>>,
    <<Chars("Macedonia (the former Yugoslav Republic of)"),
      Chars("North Macedonia")>>,
    <<Chars("Bolivia (Plurinational State of)"),
      Chars("Bolivia (Plurinational State of)")>>,
    <<Chars("Bolivia"), Chars("Bolivia (Plurinational State of)")>>,
    <<Chars("Tanzania, United Republic of"),
      Chars("Tanzania, United Republic of")>>,
    <<Chars("United Republic of Tanzania"),
      Chars("Tanzania, United Republic of")>>,
    <<Chars("Tanzania"), Chars("Tanzania, United Republic of")>>,
    <<Chars("Bahrein"), Chars("Bahrain")>>,
    <<Chars("Bahrain"), Chars("Bahrain")>>,
    <<Chars("Egypt, Arab Rep."), Chars("Egypt")>>,
    <<Chars("Egypt (Arab Republic of)"), Chars("Egypt")>>,
    <<Chars("Arab Republic of Egypt"), Chars("Egypt")>>,
    <<Chars("Egypt"), Chars("Egypt")>>,
    <<Chars("Curacao"), Chars("Cura") \o <<U_ccedil>> \o Chars("ao")>>,
    <<Chars("Cura") \o <<U_ccedil>> \o Chars("ao"),
      Chars("Cura") \o <<U_ccedil>> \o Chars("ao")>>,
    <<Chars("faroe islands"), Chars("Faroe Islands")>>,
    <<Chars("Faeroe Islands"), Chars("Faroe Islands")>>,
    <<Chars("Kyrgyz Republic"), Chars("Kyrgyzstan")>>,
    <<Chars("Kyrgyzstan"), Chars("Kyrgyzstan")>>,
    <<Chars("Puerto Rico"), Chars("Puerto Rico")>>,
    <<Chars("Puerto Rico (US)"), Chars("Puerto Rico")>>,
    <<Chars("puerto rico us"), Chars("Puerto Rico")>>,
    <<Chars("Falkland Islands (Malvinas)"),
      Chars("Falkland Islands (Malvinas)")>>,
    <<Chars("Holy See"), Chars("Holy See")>>,
    <<Chars("Guadeloupe"), Chars("Guadeloupe")>>,
    <<Chars("Martinique"), Chars("Martinique")>>,
    <<Chars("Mayotte"), Chars("Mayotte")>>,
    <<Chars("French Guiana"), Chars("French Guiana")>>,
    <<Chars("Montserrat"), Chars("Montserrat")>>,
    <<Chars("Melanesia"), Chars("Melanesia")>>
>>

\* CANONICAL with a lower-case spelling added to the Congo entries under the
\* wrong canonical name
CANONICAL_lowercase_congo ==
    CANONICAL_to_Congo
    \o <<<<Chars("congo"), Chars("Congo (Democratic Republic of the)")>>>>
    \o CANONICAL_from_Korea

\* CANONICAL with "Congo, Rep" entered once more, under the canonical name of
\* the other Congo
CANONICAL_miskeyed_congo ==
    CANONICAL_to_Congo
    \o <<<<Chars("Congo, Rep"), Chars("Congo (Democratic Republic of the)")>>>>
    \o CANONICAL_from_Korea

CANONICAL == CANONICAL_to_Congo \o CANONICAL_from_Korea

\* normalize_token(k) for each key k of CANONICAL, in order
AliasKeys == [i \in DOMAIN CANONICAL |-> normalize_token(CANONICAL[i][1])]

\* ALIAS = {normalize_token(k): v for k, v in CANONICAL.items()}: where two
\* keys normalize alike, the later item overwrites the earlier one
ALIAS ==
    [k \in Range(AliasKeys) |->
        LET last == CHOOSE i \in DOMAIN AliasKeys :
                        /\ AliasKeys[i] = k
                        /\ \A j \in DOMAIN AliasKeys : AliasKeys[j] = k => j <= i
        IN  CANONICAL[last][2]]

\* AGGREGATE_HINTS, as <<hint, label>> pairs
AGGREGATE_HINTS == <<
    <<Chars("world"), Chars("World")>>,
    <<Chars("euro area"), Chars("Euro area")>>,
    <<Chars("europe"), Chars("Europe")>>,
    <<Chars("sub saharan"), Chars("Sub-Saharan Africa")>>,
    <<Chars("latin america"), Chars("Latin America & Caribbean")>>,
    <<Chars("east asia"), Chars("East Asia & Pacific")>>,
    <<Chars("south asia"), Chars("South Asia")>>,
    <<Chars("middle east"), Chars("Middle East & North Africa")>>,
    <<Chars("ibrd"), Chars("IBRD")>>,
    <<Chars("ida"), Chars("IDA")>>,
    <<Chars("oecd"), Chars("OECD")>>,
    <<Chars("income"), Chars("income")>>,
    <<Chars("demographic dividend"), Chars("demographic dividend")>>
>>

\* canonical_country without the handling of "the ..."
canonical_country_keeps_the(nm) ==
    IF nm = Null THEN nm
    ELSE LET raw == Strip(nm)
             key == normalize_token(raw)
         IN  IF key \in DOMAIN ALIAS THEN ALIAS[key] ELSE raw

\* canonical_country returning the hint's label for an aggregate
canonical_country_returns_label(nm) ==
    IF nm = Null THEN nm
    ELSE LET raw == Strip(nm)
             key0 == normalize_token(raw)
             key == IF StartsWith(key0, Chars("the "))
                    THEN SubSeq(key0, 5, Len(key0))
                    ELSE key0
             aggs == {i \in DOMAIN AGGREGATE_HINTS :
                         Contains(key, AGGREGATE_HINTS[i][1])}
         IN  IF key \in DOMAIN ALIAS THEN ALIAS[key]
             ELSE IF aggs # {}
                  THEN AGGREGATE_HINTS[CHOOSE i \in aggs :
                                          \A j \in aggs : i <= j][2]
                  ELSE raw

canonical_country(nm) ==
    IF nm = Null THEN nm
    ELSE LET raw == Strip(nm)
             key0 == normalize_token(raw)
             key == IF StartsWith(key0, Chars("the "))
                    THEN SubSeq(key0, 5, Len(key0))
                    ELSE key0
         IN  IF key \in DOMAIN ALIAS THEN ALIAS[key]
             ELSE IF \E i \in DOMAIN AGGREGATE_HINTS :
                         Contains(key, AGGREGATE_HINTS[i][1])
                  THEN raw
                  ELSE raw


-----------------------------------------------------------------------------
(* Dataframes.  A frame is its column labels, its row index and the cells *)
(* of its name column, row by row; a cell is a str or Null.               *)

Country == Chars("Country")
Entity == Chars("Entity")

Frame(cols, cells) ==
    [columns |-> cols, index |-> [i \in DOMAIN cells |-> i - 1], values |-> cells]

\* set(df[col].dropna())
DistinctNotNa(df) == Range(df.values) \ {Null}

\* a < b on str: by code point, a proper prefix first
StrLess(a, b) ==
    \E k \in 1..(Len(a) + 1) :
        /\ k <= Len(b)
        /\ SubSeq(a, 1, k - 1) = SubSeq(b, 1, k - 1)
        /\ k <= Len(a) => Ord[a[k]] < Ord[b[k]]

\* sorted(S) for a set of str
RECURSIVE Sorted(_)
Sorted(S) ==
    IF S = {} THEN <<>>
    ELSE LET least == CHOOSE x \in S : \A y \in S \ {x} : StrLess(x, y)
         IN  <<least>> \o Sorted(S \ {least})

\* str(i) for i >= 0
IntToStr(i) == Chars(ToString(i))

standardize_country_column(df, c) ==
    IF c \notin df.columns THEN df
    ELSE [df EXCEPT
            !.values = [i \in DOMAIN df.values |-> canonical_country(df.values[i])]]

\* What the caller's frame holds once standardize_country_column returns:
\* the function works on out = df.copy()
FrameAfterStandardize(df, c) == df

-----------------------------------------------------------------------------
(* report_unmapped *)

\* the alternatives of the mask_agg pattern
ReportAggregatePatterns == <<
    Chars("world"), Chars("income"), Chars("area"), Chars("region"),
    Chars("europe"), Chars("asia"), Chars("africa"), Chars("america"),
    Chars("caribbean"), Chars("sub saharan"), Chars("middle east"),
    Chars("north africa"), Chars("east asia"), Chars("south asia"),
    Chars("pacific"), Chars("latin america"), Chars("oecd"), Chars("ibrd"),
    Chars("ida"), Chars("demographic dividend")
>>

\* Series.astype(str), one cell: a missing cell (NaN) becomes "nan"
AsTypeStr(v) == IF v = Null THEN Chars("nan") ELSE v

\* Series.drop_duplicates(): first occurrences, in order
RECURSIVE DropDuplicates(_)
DropDuplicates(s) ==
    IF s = <<>> THEN <<>>
    ELSE LET init == SubSeq(s, 1, Len(s) - 1)
             last == s[Len(s)]
         IN  IF last \in Range(init) THEN DropDuplicates(init)
             ELSE Append(DropDuplicates(init), last)

\* the default of report_unmapped's sample parameter
DefaultSample == 30

\* The "original" column of the frame report_unmapped returns, or the
\* KeyError of df[col]
report_unmapped(df, c, sample) ==
    IF c \notin df.columns THEN [kind |-> "KeyError"]
    ELSE LET ser == [i \in DOMAIN df.values |-> AsTypeStr(df.values[i])]
             NoCanonical(normalized) == normalized \notin DOMAIN ALIAS
             MaskAgg(normalized) ==
                 \E i \in DOMAIN ReportAggregatePatterns :
                     Contains(normalized, ReportAggregatePatterns[i])
             rows == SelectSeq(ser, LAMBDA v :
                         \E normalized \in {normalize_token(v)} :
                             NoCanonical(normalized) /\ ~MaskAgg(normalized))
             distinct == DropDuplicates(rows)
         IN  [kind |-> "return",
              original |-> SubSeq(distinct, 1,
                                  IF Len(distinct) < sample THEN Len(distinct)
                                  ELSE sample)]

-----------------------------------------------------------------------------
(* standardize_and_keep_common *)

\* step 2: common = set(standardized[0][col].dropna()), then &= each later one
RECURSIVE CommonFrom(_, _, _)
CommonFrom(std, i, acc) ==
    IF i > Len(std) THEN acc
    ELSE CommonFrom(std, i + 1, acc \cap DistinctNotNa(std[i]))

\* step 2 with the loop over standardized[2:]
Common_skips_second(std) ==
    CommonFrom(std, 3, DistinctNotNa(std[1]))

Common(std) ==
    CommonFrom(std, 2, DistinctNotNa(std[1]))

\* step 3: df[df[col].isin(common)].copy()
Filtered(df, keep) ==
    LET positions == [i \in DOMAIN df.values |-> i]
        kept == SelectSeq(positions, LAMBDA i : df.values[i] \in keep)
    IN  [columns |-> df.columns,
         index |-> [p \in DOMAIN kept |-> df.index[kept[p]]],
         values |-> [p \in DOMAIN kept |-> df.values[kept[p]]]]

\* the report's key for the i-th frame (i from 1): f"df{i}"
ReportKey(i) == Chars("df") \o IntToStr(i)

\* {}
EmptyDict == [k \in {} |-> <<>>]

\* step 4 without sorted(): the dropped names in row order
Report_in_row_order(std, keep, wr) ==
    IF wr
    THEN [k \in {ReportKey(i) : i \in DOMAIN std} |->
            LET i == CHOOSE j \in DOMAIN std : ReportKey(j) = k
            IN  DropDuplicates(SelectSeq(std[i].values,
                                         LAMBDA v : v # Null /\ v \notin keep))]
    ELSE EmptyDict

\* step 4: the report
Report(std, keep, wr) ==
    IF wr
    THEN [k \in {ReportKey(i) : i \in DOMAIN std} |->
            LET i == CHOOSE j \in DOMAIN std : ReportKey(j) = k
            IN  Sorted(DistinctNotNa(std[i]) \ keep)]
    ELSE EmptyDict

\* the message counting frames from 1
ColumnNotFound_from_one(c, i) ==
    [kind |-> "KeyError",
     message |-> Chars("'") \o c \o Chars("' column not found in df index ")
                 \o IntToStr(i + 1)]

\* KeyError(f"'{col}' column not found in df index {i}"), i from 0
ColumnNotFound(c, i) ==
    [kind |-> "KeyError",
     message |-> Chars("'") \o c \o Chars("' column not found in df index ")
                 \o IntToStr(i)]

\* the positions (from 1) of the frames the loop of step 1 would raise on
Lacking(frames, c) == {i \in DOMAIN frames : c \notin frames[i].columns}

Least(S) == CHOOSE i \in S : \A j \in S : i <= j

\* step 1: the frames appended to standardized when the loop ends, by
\* running out of frames or by raising at the first one lacking the column
Standardized(frames, c) ==
    LET stop == IF Lacking(frames, c) = {} THEN Len(frames) + 1
                ELSE Least(Lacking(frames, c))
    IN  [i \in 1..(stop - 1) |-> standardize_country_column(frames[i], c)]

\* The caller's frames once the call has returned or raised: the frames before
\* the first lacking one (all of them, when none lacks the column) have been
\* through standardize_country_column
FramesAfterCall(frames, c) ==
    LET stop == IF Lacking(frames, c) = {} THEN Len(frames) + 1
                ELSE Least(Lacking(frames, c))
    IN  [i \in DOMAIN frames |->
            IF i < stop THEN FrameAfterStandardize(frames[i], c) ELSE frames[i]]


-----------------------------------------------------------------------------
(* Inputs *)

\* the most pieces a generated name is made of
MaxTokens == 3

\* the most cells and frames together in one call's input
MaxCells == 5

\* a variable no call has set yet
Unset == <<"<unset>">>

Tokens == {
    Chars("the"), Chars(" "), Chars("&"), Chars("_"), Chars("."),
    Chars("ida"), Chars("rep"), Chars("Gambia"), <<U_Uuml>>, <<U_oslash>>
}

RECURSIVE TokenStrings(_)
TokenStrings(n) ==
    IF n = 0 THEN {<<>>}
    ELSE LET shorter == TokenStrings(n - 1)
         IN  shorter \cup {s \o tok : s \in shorter, tok \in Tokens}

\* names datasets carry beside the aliases: aggregates, unregistered
\* countries, connective spellings
OtherNames == {
    Chars("World"), Chars("Euro area"), Chars("OECD members"),
    Chars("Low income"), Chars("Sub-Saharan Africa"),
    Chars("Latin America & Caribbean"), Chars("Early-demographic dividend"),
    Chars("Florida"), Chars("South Africa"), Chars("Atlantis"),
    Chars("Trinidad & Tobago"), Chars("Trinidad and Tobago"),
    Chars("Fed. Sts. of Dem_Rep"), Chars("income of the Gambia")
}

KnownNames ==
    {CANONICAL[i][1] : i \in DOMAIN CANONICAL}
    \cup {CANONICAL[i][2] : i \in DOMAIN CANONICAL}
    \cup OtherNames

Prefixes == {<<>>, Chars("  "), Chars("the "), Chars("The. ")}
Suffixes == {<<>>, Chars(" \t"), Chars(" & Europe")}

Names ==
    {Null}
    \cup TokenStrings(MaxTokens)
    \cup {pre \o nm \o suf : pre \in Prefixes, nm \in KnownNames, suf \in Suffixes}

\* cells of the requested column
Cells == {
    Null,
    Chars("T") \o <<U_uuml>> \o Chars("rkiye"),
    Chars(" turkey "),
    Chars("Egypt"),
    Chars("DPRK")
}

\* cells of the name column of a frame that lacks the requested column
OtherCells == {Chars("Egypt")}

SeqsUpTo(S, n) == UNION {[1..k -> S] : k \in 0..n}

OtherLabel(c) == IF c = Country THEN Entity ELSE Country

\* frames of at most n cells, with the column c or lacking it
Frames(n, c) ==
    {Frame({c}, cells) : cells \in SeqsUpTo(Cells, n)}
    \cup {Frame({OtherLabel(c)}, cells) : cells \in SeqsUpTo(OtherCells, n)}

\* lists of frames of size (frames plus cells) at most n
RECURSIVE FrameLists(_, _)
FrameLists(n, c) ==
    IF n <= 0 THEN {<<>>}
    ELSE {<<>>} \cup
         UNION {{<<df>> \o rest : rest \in FrameLists(n - 1 - Len(df.values), c)} :
                df \in Frames(n - 1, c)}

\* cells of a column handed to report_unmapped
ReportCells == {
    Null, Chars("South Africa"), Chars("The Gambia"), Chars("Gambia, The"),
    Chars("Atlantis"), Chars("World"), Chars("atlantis ")
}

-----------------------------------------------------------------------------
(* One call of normalize_token or of canonical_country (and a second one *)
(* on its result)                                                         *)

NoFrames == <<>>
NoOutcome == [kind |-> "none"]

Init ==
    /\ pc = "start"
    /\ name \in Names
    /\ norm = Unset
    /\ canon = Unset
    /\ again = Unset
    /\ dfs = NoFrames
    /\ col = Country
    /\ with_report = TRUE
    /\ standardized = NoFrames
    /\ common = {}
    /\ outcome = NoOutcome
    /\ column = NoFrames
    /\ unmapped = NoOutcome

NormalizeToken ==
    /\ pc = "start"
    /\ norm' = normalize_token(name)
    /\ pc' = "normalized"
    /\ UNCHANGED <<name, canon, again, dfs, col, with_report, standardized,
                   common, outcome, column, unmapped>>

CanonicalCountry ==
    /\ pc = "start"
    /\ canon' = canonical_country(name)
    /\ pc' = "resolved"
    /\ UNCHANGED <<name, norm, again, dfs, col, with_report, standardized,
                   common, outcome, column, unmapped>>

CanonicalCountryAgain ==
    /\ pc = "resolved"
    /\ again' = canonical_country(canon)
    /\ pc' = "resolved_again"
    /\ UNCHANGED <<name, norm, canon, dfs, col, with_report, standardized,
                   common, outcome, column, unmapped>>

Next == NormalizeToken \/ CanonicalCountry \/ CanonicalCountryAgain

Spec == Init /\ [][Next]_vars

-----------------------------------------------------------------------------
(* One call of standardize_and_keep_common *)

InitAlign ==
    /\ pc = "start"
    /\ name = Null
    /\ norm = Unset
    /\ canon = Unset
    /\ again = Unset
    /\ col \in {Country, Entity}
    /\ dfs \in FrameLists(MaxCells, col)
    /\ with_report \in BOOLEAN
    /\ standardized = NoFrames
    /\ common = {}
    /\ outcome = NoOutcome
    /\ column = NoFrames
    /\ unmapped = NoOutcome

StandardizeAndKeepCommon ==
    /\ pc = "start"
    /\ standardized' = Standardized(dfs, col)
    /\ IF dfs = <<>>
       THEN /\ common' = {}
            /\ outcome' = [kind |-> "return", filtered |-> <<>>,
                           common |-> {}, report |-> EmptyDict]
       ELSE IF Lacking(dfs, col) # {}
       THEN /\ common' = {}
            /\ outcome' = ColumnNotFound(col, Least(Lacking(dfs, col)) - 1)
       ELSE /\ common' = Common(standardized')
            /\ outcome' =
                   [kind |-> "return",
                    filtered |-> [i \in DOMAIN standardized' |->
                                     Filtered(standardized'[i], common')],
                    common |-> common',
                    report |-> Report(standardized', common', with_report)]
    /\ dfs' = FramesAfterCall(dfs, col)
    /\ pc' = "aligned"
    /\ UNCHANGED <<name, norm, canon, again, col, with_report, column, unmapped>>

NextAlign == StandardizeAndKeepCommon

SpecAlign == InitAlign /\ [][NextAlign]_vars

-----------------------------------------------------------------------------
(* One call of report_unmapped *)

InitReport ==
    /\ pc = "start"
    /\ name = Null
    /\ norm = Unset
    /\ canon = Unset
    /\ again = Unset
    /\ dfs = NoFrames
    /\ col = Country
    /\ with_report = TRUE
    /\ standardized = NoFrames
    /\ common = {}
    /\ outcome = NoOutcome
    /\ column \in {Frame({label}, cells) :
                     label \in {Country, Entity},
                     cells \in SeqsUpTo(ReportCells, MaxCells - 2)}
    /\ unmapped = NoOutcome

ReportUnmapped ==
    /\ pc = "start"
    /\ unmapped' = report_unmapped(column, col, DefaultSample)
    /\ pc' = "reported"
    /\ UNCHANGED <<name, norm, canon, again, dfs, col, with_report,
                   standardized, common, outcome, column>>

NextReport == ReportUnmapped

SpecReport == InitReport /\ [][NextReport]_vars

-----------------------------------------------------------------------------
(* Properties of normalize_token and canonical_country, under Spec *)

Resolved == pc \in {"resolved", "resolved_again"}

CanonicalNames == {CANONICAL[i][2] : i \in DOMAIN CANONICAL}

Hints == {AGGREGATE_HINTS[i][1] : i \in DOMAIN AGGREGATE_HINTS}

\* the key the resolver looks up: the comparison key of the trimmed name,
\* less one leading "the "
LookupKey(nm) ==
    LET key == normalize_token(Strip(nm))
    IN  IF Len(key) >= 4 /\ SubSeq(key, 1, 4) = Chars("the ")
        THEN SubSeq(key, 5, Len(key))
        ELSE key

\* C1: canonical_country returns null exactly for the null name; for any
\* other name, the table's canonical name for its lookup key when some alias
\* has that key, and the trimmed name otherwise.
C1_ThreeOutcomes ==
    Resolved =>
        /\ (canon = Null) <=> (name = Null)
        /\ name # Null =>
              \A key \in {LookupKey(name)} :
                  IF \E i \in DOMAIN CANONICAL : AliasKeys[i] = key
                  THEN /\ canon = ALIAS[key]
                       /\ \E i \in DOMAIN CANONICAL :
                             AliasKeys[i] = key /\ canon = CANONICAL[i][2]
                  ELSE canon = Strip(name)

\* a padded name that is mapped only once its leading "the " is dropped
C1_Witness ==
    /\ pc = "resolved"
    /\ name # Null
    /\ Strip(name) # name
    /\ normalize_token(name) \notin DOMAIN ALIAS
    /\ \E key \in {LookupKey(name)} : key \in DOMAIN ALIAS /\ canon = ALIAS[key]

\* C2: every canonical name of the table resolves to itself, and resolving
\* the result of a resolution gives that result again.
C2_Idempotent ==
    /\ (Resolved /\ name \in CanonicalNames) => canon = name
    /\ pc = "resolved_again" => again = canon

\* an alias that is not canonical, resolved and resolved again
C2_Witness ==
    /\ pc = "resolved_again"
    /\ name # Null
    /\ canon \in CanonicalNames
    /\ canon # Strip(name)
    /\ again = canon

\* C3: a name whose comparison key contains an aggregate hint resolves to its
\* trimmed text, which is no canonical name of the table.
C3_AggregatePassthrough ==
    (Resolved /\ name # Null) =>
        \A key \in {normalize_token(name)} :
            (\E h \in Hints : Contains(key, h)) =>
                /\ canon = Strip(name)
                /\ canon \notin CanonicalNames

\* an aggregate name that holds a registered alias as well
C3_Witness ==
    /\ pc = "resolved"
    /\ name # Null
    /\ \E key \in {normalize_token(name)} :
          /\ \E h \in Hints : Contains(key, h)
          /\ \E k \in DOMAIN ALIAS : Contains(key, k)
    /\ canon = Strip(name)

\* a str of lowercase ASCII letters, ASCII digits and single spaces, with no
\* space at either end
IsComparisonKey(s) ==
    /\ \A i \in DOMAIN s :
          s[i] \in Range(AsciiLower) \cup Range(AsciiDigit) \cup {" "}
    /\ s # <<>> => s[1] # " " /\ s[Len(s)] # " "
    /\ \A i \in 1..(Len(s) - 1) : ~(s[i] = " " /\ s[i + 1] = " ")

\* C8: every output of normalize_token is a comparison key, and a name made
\* only of punctuation and symbols, underscore included, normalizes to "".
C8_ComparisonKey ==
    pc = "normalized" =>
        /\ IsComparisonKey(norm)
        /\ (/\ name # Null
            /\ \A i \in DOMAIN name :
                  name[i] \in Range(Chars("&'(),-./_")) \cup {U_rsquo})
           => norm = <<>>

\* C9: normalize_token(a + " & " + b) = normalize_token(a + " and " + b).
C9_AmpersandIsAnd ==
    (pc = "normalized" /\ name # Null) =>
        \A i \in DOMAIN name :
            MatchesAt(name, i, Chars(" & ")) =>
                norm = normalize_token(SubSeq(name, 1, i - 1) \o Chars(" and ")
                                       \o SubSeq(name, i + 3, Len(name)))

\* C10: aliases with the same comparison key have the same canonical name,
\* and every alias resolves to the canonical name it is registered with.
C10_AliasIntegrity ==
    Resolved =>
        \A i \in DOMAIN CANONICAL :
            name = CANONICAL[i][1] =>
                /\ canon = CANONICAL[i][2]
                /\ \A j \in DOMAIN CANONICAL :
                      AliasKeys[j] = AliasKeys[i] =>
                          CANONICAL[j][2] = CANONICAL[i][2]

\* an alias that shares its comparison key with another alias
C10_Witness ==
    /\ pc = "resolved"
    /\ \E i, j \in DOMAIN CANONICAL :
          /\ i # j
          /\ name = CANONICAL[i][1]
          /\ AliasKeys[i] = AliasKeys[j]
          /\ canon = CANONICAL[j][2]

-----------------------------------------------------------------------------
(* Properties of standardize_and_keep_common, under SpecAlign *)

\* what each cell an input frame can hold resolves to
ResolvedCell == [v \in Cells \cup OtherCells |-> canonical_country(v)]

\* the resolved cells of the i-th input frame
ResolvedCells(i) ==
    [k \in DOMAIN dfs[i].values |-> ResolvedCell[dfs[i].values[k]]]

\* the distinct non-null resolved values of the i-th input frame
ResolvedSet(i) == Range(ResolvedCells(i)) \ {Null}

AllHaveColumn == \A i \in DOMAIN dfs : col \in dfs[i].columns

Returned == pc = "aligned" /\ outcome.kind = "return"

\* C4: for a non-empty list of frames that all have the column, common is
\* the intersection of the frames' distinct non-null resolved values, and
\* filtered[i] is the i-th frame's resolved rows with a value in common, in
\* row order; so each filtered frame's distinct values are exactly common.
C4_CommonAndFiltered ==
    (pc = "aligned" /\ dfs # <<>> /\ AllHaveColumn) =>
        /\ outcome.kind = "return"
        /\ outcome.common =
              {v \in ResolvedSet(1) : \A i \in DOMAIN dfs : v \in ResolvedSet(i)}
        /\ DOMAIN outcome.filtered = DOMAIN dfs
        /\ \A i \in DOMAIN dfs :
              LET f == outcome.filtered[i]
              IN  /\ f.columns = dfs[i].columns
                  /\ DOMAIN f.index = DOMAIN f.values
                  /\ \A p, q \in DOMAIN f.index : p < q => f.index[p] < f.index[q]
                  /\ Range(f.index) =
                        {dfs[i].index[k] : k \in
                            {k \in DOMAIN dfs[i].values :
                                ResolvedCells(i)[k] \in outcome.common}}
                  /\ \A p \in DOMAIN f.values :
                        \E k \in DOMAIN dfs[i].values :
                            /\ dfs[i].index[k] = f.index[p]
                            /\ f.values[p] = ResolvedCells(i)[k]
                  /\ Range(f.values) = outcome.common

\* three frames with a common name under different spellings, one of which
\* loses a row
C4_Witness ==
    /\ Returned
    /\ Len(dfs) >= 2
    /\ outcome.common # {}
    /\ \E i \in DOMAIN dfs :
          /\ Len(outcome.filtered[i].values) < Len(dfs[i].values)
          /\ outcome.filtered[i].values # SubSeq(dfs[i].values, 1,
                                                Len(outcome.filtered[i].values))

\* a < b for all neighbours: ascending, without duplicates
Ascending(s) == \A p \in 1..(Len(s) - 1) : StrLess(s[p], s[p + 1])

\* each frame's entry of the report: the ascending list of its distinct
\* non-null resolved values outside common
ReportEntries ==
    /\ DOMAIN outcome.report = {Chars("df") \o IntToStr(i) : i \in DOMAIN dfs}
    /\ \A i \in DOMAIN dfs :
          LET dropped == outcome.report[Chars("df") \o IntToStr(i)]
          IN  /\ Ascending(dropped)
              /\ Range(dropped) = ResolvedSet(i) \ outcome.common
              /\ Range(dropped) \cap outcome.common = {}
              /\ Range(dropped) \cup outcome.common = ResolvedSet(i)

\* C5 as stated: the report of every returning call has one such entry per
\* input frame.
C5_ReportAlways == Returned => ReportEntries

\* C5, amended: with with_report set (the default) the report has one entry
\* per input frame, keyed "df1", "df2", ... by position, each the ascending
\* list without duplicates of that frame's distinct non-null resolved values
\* outside common; with with_report unset the report is empty.
C5_ReportWhenAsked ==
    Returned =>
        IF with_report THEN ReportEntries ELSE DOMAIN outcome.report = {}

\* a report with two dropped names whose sorted order is not their row order
C5_Witness ==
    /\ Returned
    /\ with_report
    /\ \E i \in DOMAIN dfs :
          /\ Len(outcome.report[Chars("df") \o IntToStr(i)]) >= 2
          /\ StrLess(ResolvedCells(i)[2], ResolvedCells(i)[1])

\* s.endswith(suffix)
EndsWith(s, suffix) ==
    /\ Len(suffix) <= Len(s)
    /\ SubSeq(s, Len(s) - Len(suffix) + 1, Len(s)) = suffix

\* C6: a call with a frame lacking the column raises an error that names the
\* column and the index (from 0) of the first such frame, returns nothing
\* else, and leaves the input frames as they were.
C6_MissingColumn ==
    [][(pc = "start" /\ ~AllHaveColumn) =>
          /\ outcome'.kind = "KeyError"
          /\ DOMAIN outcome' = {"kind", "message"}
          /\ Contains(outcome'.message, Chars("'") \o col \o Chars("'"))
          /\ \E i \in DOMAIN dfs :
                /\ col \notin dfs[i].columns
                /\ \A j \in 1..(i - 1) : col \in dfs[j].columns
                /\ EndsWith(outcome'.message, Chars(" index ") \o IntToStr(i - 1))
          /\ dfs' = dfs]_vars

\* the error raised at a later frame, after an earlier frame with names to
\* standardize went through the loop
C6_Witness ==
    /\ pc = "aligned"
    /\ outcome.kind = "KeyError"
    /\ standardized # <<>>
    /\ standardized[1].values # dfs[1].values
    /\ EndsWith(outcome.message, Chars(" index 1"))

-----------------------------------------------------------------------------
(* Properties of report_unmapped, under SpecReport *)

\* the cells with no alias entry for their comparison key and no aggregate
\* hint in it
NeedsMapping(v) ==
    \E key \in {normalize_token(v)} :
        /\ key \notin DOMAIN ALIAS
        /\ \A h \in Hints : ~Contains(key, h)

\* s lists the members of S once each
ListsOnce(s, S) ==
    /\ Range(s) = S
    /\ \A p, q \in DOMAIN s : p # q => s[p] # s[q]

\* first-seen order: of two listed values, the one met first in the column
\* comes first
FirstSeenOrder(s, cells) ==
    \A p, q \in DOMAIN s :
        p < q =>
            \E k \in DOMAIN cells :
                /\ cells[k] = s[p]
                /\ \A m \in 1..k : cells[m] # s[q]

\* C7: report_unmapped lists, once each and in first-seen order, exactly the
\* column's values with no alias entry and no match of the resolver's
\* aggregate hints (stated for a column without missing cells).
C7_UnmappedReport ==
    (/\ pc = "reported"
     /\ unmapped.kind = "return"
     /\ Null \notin Range(column.values))
    => /\ ListsOnce(unmapped.original,
                    {v \in Range(column.values) : NeedsMapping(v)})
       /\ FirstSeenOrder(unmapped.original, column.values)

=============================================================================
